---- MODULE Spec2Model ----
(***************************************************************************)
(* LoOPer: the LoopExecutor leveraged-staking engine, run against the      *)
(* MockStash lending pool and an OP20 token ledger (MockMoto).             *)
(*                                                                         *)
(* Every invocation of a contract method is one atomic step: the runtime   *)
(* rolls back all storage of all contracts when any call in the invocation *)
(* reverts (LoopExecutor header, "Reentrancy Guard & Storage Rollback").   *)
(* A method is therefore a pure operator from the storage before the call  *)
(* to an outcome (the revert reason, or "ok" and the storage after it),    *)
(* and the action commits the storage only when the outcome is "ok".       *)
(*                                                                         *)
(* Numbers.  The contracts compute on u256 with 18-decimal ratios.  The    *)
(* model keeps every formula, but writes ratios with two decimals          *)
(* (E18 = 100 stands for 1.0) so that all products fit the model checker's *)
(* integers; the thresholds keep their proportion to E18.  U256_MAX is the *)
(* largest value of the model's word.  SafeMath never wraps: an overflow   *)
(* or underflow reverts the invocation.                                    *)
(***************************************************************************)
EXTENDS Integers, Sequences, FiniteSets, TLC

\* ------------------------------------------------------------------------
\*  Constants of LoopExecutor
\* ------------------------------------------------------------------------
FEE_BASIS == 10000
ENTRY_FEE_BPS == 50
EXIT_FEE_BPS == 50
MIN_DEPOSIT == 10000
E18 == 100
MAX_LEVERAGE_E18 == 3 * E18
MIN_HEALTH_FACTOR_E18_One == E18
MIN_HEALTH_FACTOR_E18 == (3 * E18) \div 2
MAX_LOOPS_Six == 5 + 1
MAX_LOOPS == 5

\* ------------------------------------------------------------------------
\*  Constants of MockStash
\* ------------------------------------------------------------------------
HUNDRED == 100
LTV_PERCENT == 66
LIQ_THRESHOLD_PERCENT == 80

\* u256.Max
U256_MAX == 2147483647

\* ------------------------------------------------------------------------
\*  Addresses
\* ------------------------------------------------------------------------
ZERO == "zero"
DEPLOYER == "deployer"
ENGINE == "engine"
STASH == "stash"
TREASURY == "treasury"
MOTO == "moto"
Users == {"alice", "bob"}
Callers == Users \cup {DEPLOYER}
Holders == Users \cup {DEPLOYER, ENGINE, STASH, TREASURY}
NewAddresses == {ZERO, "alice", "carol"}
PoolAccounts == Users \cup {ENGINE}
AllowPairs == {<<u, ENGINE>> : u \in Users} \cup {<<ENGINE, STASH>>}
                  \cup {<<u, STASH>> : u \in Users}

\* The contract deployed at the engine's stash address: MockStash, or some
\* other lending pool, of which only its answers to the two risk queries are
\* fixed (for the length of one invocation).
MockStashPool == [mock |-> TRUE, maxBorrowable |-> 0, healthFactor |-> 0]
OtherPool(m, h) == [mock |-> FALSE, maxBorrowable |-> m, healthFactor |-> h]

\* ------------------------------------------------------------------------
\*  Bounds of the model
\* ------------------------------------------------------------------------
MintUnit == 20000
MaxMints == 2
MaxFees == 120
MaxSupply == MaxMints * MintUnit
MaxApproved == MintUnit
MaxFeeAmount == 400
FeeAmounts == 0 .. MaxFeeAmount
InterestUnit == 20000
MaxInterest == 2 * InterestUnit
YieldUnit == InterestUnit
PoolMaxBorrowable == {0, 1, 3000, U256_MAX}
PoolHealthFactors == {MIN_HEALTH_FACTOR_E18 - 1, MIN_HEALTH_FACTOR_E18}
Pools == {OtherPool(m, h) : m \in PoolMaxBorrowable, h \in PoolHealthFactors}
DepositAmounts == {0, 50}
BorrowAmounts == {0, 33, 34, 40}
RepayAmounts == {0, 33, 41}
WithdrawAmounts == {0, 50, 60}
MaxPoolDeposit == 100
Amounts == {MIN_DEPOSIT - 1, MIN_DEPOSIT, 2 * MIN_DEPOSIT}
FineLeverages == (((3 * E18) \div 2) .. ((8 * E18) \div 5)) \cup {2 * E18, 3 * E18}
Leverages == {E18 \div 2, E18, (5 * E18) \div 4, 2 * E18, 3 * E18, 4 * E18}

VARIABLES
    paused,              \* LoopExecutor.paused
    locked,              \* LoopExecutor.locked
    totalFeesCollected,  \* LoopExecutor.totalFeesCollected
    activeUser,          \* LoopExecutor.activeUser (ZERO = no position)
    userDeposits,        \* LoopExecutor.userDeposits
    userDebts,           \* LoopExecutor.userDebts
    stashDeposits,       \* MockStash.userDeposits
    stashBorrows,        \* MockStash.userBorrows
    totalDeposits,       \* MockStash.totalDeposits
    totalBorrows,        \* MockStash.totalBorrows
    balance,             \* OP20 balances
    allowance,           \* OP20 allowances, <<owner, spender>>
    totalSupply,         \* OP20 total supply
    ledgerChecked,       \* the ledger's allowance arithmetic (fixed at deployment)
    treasury,            \* LoopExecutor.treasury
    stash,               \* LoopExecutor.stash
    moto,                \* LoopExecutor.moto
    last                 \* the last invocation and its outcome

stateVars == <<paused, locked, totalFeesCollected, activeUser, userDeposits,
               userDebts, stashDeposits, stashBorrows, totalDeposits,
               totalBorrows, balance, allowance, totalSupply, ledgerChecked,
               treasury, stash, moto>>
vars == <<paused, locked, totalFeesCollected, activeUser, userDeposits,
          userDebts, stashDeposits, stashBorrows, totalDeposits,
          totalBorrows, balance, allowance, totalSupply, ledgerChecked,
          treasury, stash, moto, last>>

\* The storage of the three contracts as one record; log collects the pool
\* calls made by the invocation being executed.
Storage ==
    [paused |-> paused, locked |-> locked,
     totalFeesCollected |-> totalFeesCollected, activeUser |-> activeUser,
     userDeposits |-> userDeposits, userDebts |-> userDebts,
     stashDeposits |-> stashDeposits, stashBorrows |-> stashBorrows,
     totalDeposits |-> totalDeposits, totalBorrows |-> totalBorrows,
     balance |-> balance, allowance |-> allowance, totalSupply |-> totalSupply,
     ledgerChecked |-> ledgerChecked,
     treasury |-> treasury, stash |-> stash, moto |-> moto,
     log |-> <<>>, held |-> <<>>, pool |-> MockStashPool]

Ok(s) == [err |-> "ok", s |-> s]
Revert(s, msg) == [err |-> msg, s |-> s]

\* Sequencing of calls: a revert of r ends the invocation with r's error,
\* otherwise the code after the call runs on what r returned.
Bind(r, K(_)) == IF r.err # "ok" THEN r ELSE K(r)

\* ------------------------------------------------------------------------
\*  OP20 token ledger (MockMoto extends OP20)
\* ------------------------------------------------------------------------

\* transfer(to, amount), called by from
tokenTransfer(s, from, to, amount) ==
    IF s.balance[from] < amount THEN Revert(s, "Insufficient balance")
    ELSE Ok([s EXCEPT !.balance = [@ EXCEPT ![from] = @ - amount,
                                             ![to] = s.balance[to] + amount
                                                     - (IF to = from THEN amount ELSE 0)]])

\* The allowance left to spender after it moved amount of owner's tokens.
\* A ledger with checked arithmetic always deducts; the other treats a
\* maximum allowance as unlimited and leaves it alone.
spendAllowance(s, owner, spender, amount) ==
    LET allowed == s.allowance[<<owner, spender>>] IN
    IF (~s.ledgerChecked) /\ allowed = U256_MAX THEN Ok(s)
    ELSE IF allowed < amount THEN Revert(s, "Insufficient allowance")
    ELSE Ok([s EXCEPT !.allowance[<<owner, spender>>] = allowed - amount])

\* transferFrom(from, to, amount), called by spender
tokenTransferFrom(s, spender, from, to, amount) ==
    Bind(spendAllowance(s, from, spender, amount),
         LAMBDA a : tokenTransfer(a.s, from, to, amount))

\* Variant: the addition saturates at the maximum on every ledger.
tokenIncreaseAllowance_Saturating(s, owner, spender, amount) ==
    LET allowed == s.allowance[<<owner, spender>>] IN
    IF allowed > U256_MAX - amount
    THEN Ok([s EXCEPT !.allowance[<<owner, spender>>] = U256_MAX])
    ELSE Ok([s EXCEPT !.allowance[<<owner, spender>>] = allowed + amount])

\* increaseAllowance(spender, amount), called by owner
tokenIncreaseAllowance(s, owner, spender, amount) ==
    LET allowed == s.allowance[<<owner, spender>>] IN
    IF allowed > U256_MAX - amount
    THEN IF s.ledgerChecked THEN Revert(s, "SafeMath: addition overflow")
         ELSE Ok([s EXCEPT !.allowance[<<owner, spender>>] = U256_MAX])
    ELSE Ok([s EXCEPT !.allowance[<<owner, spender>>] = allowed + amount])

\* decreaseAllowance(spender, amount), called by owner
tokenDecreaseAllowance(s, owner, spender, amount) ==
    LET allowed == s.allowance[<<owner, spender>>] IN
    IF amount > allowed
    THEN IF s.ledgerChecked THEN Revert(s, "SafeMath: subtraction underflow")
         ELSE Ok([s EXCEPT !.allowance[<<owner, spender>>] = 0])
    ELSE Ok([s EXCEPT !.allowance[<<owner, spender>>] = allowed - amount])

\* ------------------------------------------------------------------------
\*  MockStash
\* ------------------------------------------------------------------------

\* Variant: an account without debt is reported with health factor zero.
calculateHealthFactor_NoSentinel(s, account) ==
    LET deposits == s.stashDeposits[account]
        debt == s.stashBorrows[account]
    IN IF debt = 0 THEN 0
       ELSE (((deposits * LIQ_THRESHOLD_PERCENT) * E18) \div HUNDRED) \div debt

calculateHealthFactor(s, account) ==
    LET deposits == s.stashDeposits[account]
        debt == s.stashBorrows[account]
    IN IF debt = 0 THEN U256_MAX
       ELSE (((deposits * LIQ_THRESHOLD_PERCENT) * E18) \div HUNDRED) \div debt

\* Variant: the debt already drawn is not deducted.
calculateMaxBorrowable_Gross(s, account) ==
    (s.stashDeposits[account] * LTV_PERCENT) \div HUNDRED

calculateMaxBorrowable(s, account) ==
    LET deposits == s.stashDeposits[account]
        currentDebt == s.stashBorrows[account]
        maxTotalBorrow == (deposits * LTV_PERCENT) \div HUNDRED
    IN IF maxTotalBorrow <= currentDebt THEN 0 ELSE maxTotalBorrow - currentDebt

\* pullTokens / sendTokens: the pool is the spender, resp. the sender
pullTokens(s, from, amount) == tokenTransferFrom(s, STASH, from, STASH, amount)
sendTokens(s, to, amount) == tokenTransfer(s, STASH, to, amount)

stashDepositCall(s, sender, amount) ==
    IF amount = 0 THEN Revert(s, "Amount must be > 0")
    ELSE Bind(pullTokens(s, sender, amount),
              LAMBDA p : Ok([p.s EXCEPT !.stashDeposits[sender] = @ + amount,
                                        !.totalDeposits = @ + amount]))

stashBorrowCall(s, sender, amount) ==
    IF amount = 0 THEN Revert(s, "Amount must be > 0")
    ELSE IF amount > calculateMaxBorrowable(s, sender)
    THEN Revert(s, "Exceeds borrowing capacity")
    ELSE sendTokens([s EXCEPT !.stashBorrows[sender] = @ + amount,
                               !.totalBorrows = @ + amount],
                    sender, amount)

stashRepayCall(s, sender, amount) ==
    LET currentBorrow == s.stashBorrows[sender] IN
    IF amount = 0 THEN Revert(s, "Amount must be > 0")
    ELSE IF amount > currentBorrow THEN Revert(s, "Repay exceeds debt")
    ELSE Bind(pullTokens(s, sender, amount),
              LAMBDA p : Ok([p.s EXCEPT !.stashBorrows[sender] = currentBorrow - amount,
                                        !.totalBorrows = @ - amount]))

\* Variant: collateral is released without the health check.
stashWithdrawCall_Unchecked(s, sender, amount) ==
    IF amount = 0 THEN Revert(s, "Amount must be > 0")
    ELSE IF amount > s.stashDeposits[sender] THEN Revert(s, "Withdraw exceeds deposits")
    ELSE tokenTransfer([s EXCEPT !.stashDeposits[sender] = @ - amount,
                                 !.totalDeposits = @ - amount],
                       STASH, sender, amount)

stashWithdrawCall(s, sender, amount) ==
    LET currentDeposit == s.stashDeposits[sender]
        newDeposit == currentDeposit - amount
        currentDebt == s.stashBorrows[sender]
        newHF == (((newDeposit * LIQ_THRESHOLD_PERCENT) * E18) \div HUNDRED)
                     \div currentDebt
    IN IF amount = 0 THEN Revert(s, "Amount must be > 0")
       ELSE IF amount > currentDeposit THEN Revert(s, "Withdraw exceeds deposits")
       ELSE IF currentDebt > 0 /\ newHF < E18
       THEN Revert(s, "Withdrawal would make position unhealthy")
       ELSE sendTokens([s EXCEPT !.stashDeposits[sender] = newDeposit,
                                  !.totalDeposits = @ - amount],
                       sender, amount)

\* healthFactor(account)
healthFactor(s, account) ==
    [err |-> "ok", s |-> s, ret |-> calculateHealthFactor(s, account)]

\* maxBorrowable(account)
maxBorrowableOf(s, account) ==
    [err |-> "ok", s |-> s, ret |-> calculateMaxBorrowable(s, account)]

\* ------------------------------------------------------------------------
\*  A lending pool other than MockStash: it keeps the same books and moves
\*  tokens the same way, but lends and releases collateral by its own rules,
\*  known to the engine only through its answers.
\* ------------------------------------------------------------------------

lendingPoolBorrow(s, sender, amount) ==
    IF amount = 0 THEN Revert(s, "Amount must be > 0")
    ELSE IF amount > s.pool.maxBorrowable
    THEN Revert(s, "Exceeds borrowing capacity")
    ELSE sendTokens([s EXCEPT !.stashBorrows[sender] = @ + amount,
                              !.totalBorrows = @ + amount],
                    sender, amount)

lendingPoolWithdraw(s, sender, amount) ==
    IF amount = 0 THEN Revert(s, "Amount must be > 0")
    ELSE IF amount > s.stashDeposits[sender] THEN Revert(s, "Withdraw exceeds deposits")
    ELSE sendTokens([s EXCEPT !.stashDeposits[sender] = @ - amount,
                              !.totalDeposits = @ - amount],
                    sender, amount)

\* ------------------------------------------------------------------------
\*  LoopExecutor: internal helpers
\* ------------------------------------------------------------------------

\* Variant: rounded to the nearest unit.
feeRoundUp_Nearest(amount, bps) ==
    ((amount * bps) + (FEE_BASIS \div 2)) \div FEE_BASIS

\* Variant: rounded down, as before the H-04 fix.
feeRoundUp_Floor(amount, bps) ==
    (amount * bps) \div FEE_BASIS

\* ceil(amount * bps / FEE_BASIS)
feeRoundUp(amount, bps) ==
    ((amount * bps) + (FEE_BASIS - 1)) \div FEE_BASIS

\* Every state-changing call the engine makes to another contract is logged
\* in the order made, whether or not the callee accepts it, together with
\* the storage the callee finds when it is given control.  The health-factor
\* query is logged as well, with the pool's answer in place of an amount.
Logged(s, op, amount) ==
    [s EXCEPT !.log = Append(@, <<op, amount>>),
              !.held = Append(@, [s EXCEPT !.log = <<>>, !.held = <<>>])]

\* The token calls are made by the engine: it is the spender of transferFrom,
\* the sender of transfer and the owner of the allowance it changes.
safeTransferFrom(s, from, to, amount) ==
    tokenTransferFrom(Logged(s, "transferFrom", amount), ENGINE, from, to, amount)
safeTransfer(s, to, amount) ==
    tokenTransfer(Logged(s, "transfer", amount), ENGINE, to, amount)
safeIncreaseAllowance(s, spender, amount) ==
    tokenIncreaseAllowance(Logged(s, "increaseAllowance", amount), ENGINE, spender, amount)
\* Variant: the allowance is left as it is.
safeDecreaseAllowance_Skipped(s, spender, amount) ==
    Ok(Logged(s, "decreaseAllowance", amount))
safeDecreaseAllowance(s, spender, amount) ==
    tokenDecreaseAllowance(Logged(s, "decreaseAllowance", amount), ENGINE, spender, amount)

\* The pool calls are made under the engine's own account.
stashDeposit(s, amount) == stashDepositCall(Logged(s, "deposit", amount), ENGINE, amount)
stashBorrow(s, amount) ==
    IF s.pool.mock THEN stashBorrowCall(Logged(s, "borrow", amount), ENGINE, amount)
    ELSE lendingPoolBorrow(Logged(s, "borrow", amount), ENGINE, amount)
stashRepay(s, amount) == stashRepayCall(Logged(s, "repay", amount), ENGINE, amount)
stashWithdraw(s, amount) ==
    IF s.pool.mock THEN stashWithdrawCall(Logged(s, "withdraw", amount), ENGINE, amount)
    ELSE lendingPoolWithdraw(Logged(s, "withdraw", amount), ENGINE, amount)
stashHealthFactor(s) ==
    IF s.pool.mock THEN calculateHealthFactor(s, ENGINE) ELSE s.pool.healthFactor
stashBorrowBalance(s) == s.stashBorrows[ENGINE]
stashMaxBorrowable(s) ==
    IF s.pool.mock THEN calculateMaxBorrowable(s, ENGINE) ELSE s.pool.maxBorrowable
stashDepositBalance(s) == s.stashDeposits[ENGINE]

\* Variant: the health factor is queried but never compared.
enforceHealthFactor_Unchecked(s) == Ok(s)

enforceHealthFactor(s) ==
    IF stashHealthFactor(s) < MIN_HEALTH_FACTOR_E18
    THEN Revert(Logged(s, "healthFactor", stashHealthFactor(s)),
                "Health factor below minimum 1.5")
    ELSE Ok(Logged(s, "healthFactor", stashHealthFactor(s)))

\* Variant: the paused flag is not consulted.
whenNotPaused_Ignored(s) == Ok(s)

whenNotPaused(s) ==
    IF s.paused THEN Revert(s, "Contract is paused") ELSE Ok(s)

\* Variant: the lock is taken without being tested.
nonReentrant_Unlocked(s) == Ok([s EXCEPT !.locked = TRUE])

nonReentrant(s) ==
    IF s.locked THEN Revert(s, "Reentrant call")
    ELSE Ok([s EXCEPT !.locked = TRUE])

\* Variant: the lock is never released.
releaseGuard_Skipped(s) == s

releaseGuard(s) == [s EXCEPT !.locked = FALSE]

\* H-03: a position is active while the stored owner is not the zero address.
\* Variant: the single-position check is missing.
positionActive_Never(s) == FALSE

positionActive(s) == s.activeUser # ZERO

\* ------------------------------------------------------------------------
\*  LoopExecutor.openPosition
\* ------------------------------------------------------------------------

\* Variant: the amounts are recorded but the owner is not.
storePosition_NoOwner(s, sender, totalDeposited, totalBorrowed) ==
    [s EXCEPT !.userDeposits[sender] = totalDeposited,
              !.userDebts[sender] = totalBorrowed]

\* Variant: the principal is recorded, the deposit net of the debt.
storePosition_Principal(s, sender, totalDeposited, totalBorrowed) ==
    [s EXCEPT !.activeUser = sender,
              !.userDeposits[sender] = totalDeposited - totalBorrowed,
              !.userDebts[sender] = 0]

\* "Store position"
storePosition(s, sender, totalDeposited, totalBorrowed) ==
    [s EXCEPT !.activeUser = sender,
              !.userDeposits[sender] = totalDeposited,
              !.userDebts[sender] = totalBorrowed]

\* Variant: the target is rounded up instead of down.
targetTotalDeposit_RoundUp(netDeposit, targetLeverageE18) ==
    ((netDeposit * targetLeverageE18) + (E18 - 1)) \div E18

targetTotalDeposit(netDeposit, targetLeverageE18) ==
    (netDeposit * targetLeverageE18) \div E18

\* min(maxBorrowable, targetTotalDeposit - totalDeposited)
borrowAmountOf(maxBorrowable, remaining) ==
    IF maxBorrowable < remaining THEN maxBorrowable ELSE remaining

LoopDone(s, totalDeposited, totalBorrowed) ==
    [err |-> "ok", s |-> s, totalDeposited |-> totalDeposited,
     totalBorrowed |-> totalBorrowed]

\* Variant: the health factor is not checked inside the loop, only after it.
RECURSIVE leverageLoop_CheckAtEnd(_, _, _, _, _, _)
leverageLoop_CheckAtEnd(i, s, totalDeposited, totalBorrowed, currentAmount, target) ==
    IF i >= MAX_LOOPS \/ currentAmount = 0
    THEN LoopDone(s, totalDeposited, totalBorrowed)
    ELSE
    Bind(stashDeposit(s, currentAmount), LAMBDA d :
    LET deposited == totalDeposited + currentAmount IN
    IF deposited >= target THEN LoopDone(d.s, deposited, totalBorrowed)
    ELSE
    LET maxBorrowable == stashMaxBorrowable(d.s)
        borrowAmount == borrowAmountOf(maxBorrowable, target - deposited)
    IN
    IF maxBorrowable = 0 \/ borrowAmount = 0
    THEN LoopDone(d.s, deposited, totalBorrowed)
    ELSE
    Bind(stashBorrow(d.s, borrowAmount), LAMBDA b :
    leverageLoop_CheckAtEnd(i + 1, b.s, deposited, totalBorrowed + borrowAmount,
                            borrowAmount, target)))

\* The leverage loop from iteration i on.
RECURSIVE leverageLoop(_, _, _, _, _, _)
leverageLoop(i, s, totalDeposited, totalBorrowed, currentAmount, target) ==
    IF i >= MAX_LOOPS \/ currentAmount = 0
    THEN LoopDone(s, totalDeposited, totalBorrowed)
    ELSE
    Bind(stashDeposit(s, currentAmount), LAMBDA d :
    LET deposited == totalDeposited + currentAmount IN
    IF deposited >= target THEN LoopDone(d.s, deposited, totalBorrowed)
    ELSE
    LET maxBorrowable == stashMaxBorrowable(d.s)
        borrowAmount == borrowAmountOf(maxBorrowable, target - deposited)
    IN
    IF maxBorrowable = 0 \/ borrowAmount = 0
    THEN LoopDone(d.s, deposited, totalBorrowed)
    ELSE
    Bind(stashBorrow(d.s, borrowAmount), LAMBDA b :
    Bind(enforceHealthFactor(b.s), LAMBDA h :
    leverageLoop(i + 1, h.s, deposited, totalBorrowed + borrowAmount,
                 borrowAmount, target))))

OpenResult(err, s, totalDeposited, totalBorrowed, fee) ==
    [err |-> err, s |-> s, totalDeposited |-> totalDeposited,
     totalBorrowed |-> totalBorrowed, fee |-> fee, userReceives |-> 0,
     log |-> s.log]

\* The outcome of an invocation.  A revert returns nothing but its error;
\* r.s is then the storage as the code left it when it threw, which the
\* runtime discards (see Commit).
Settle(r) ==
    IF r.err = "ok" THEN r
    ELSE [err |-> r.err, s |-> r.s, totalDeposited |-> 0, totalBorrowed |-> 0,
          fee |-> 0, userReceives |-> 0, log |-> r.s.log]

\* Variant: the fee is sent to the treasury but not accumulated.
takeFee_NotAccumulated(s, fee) ==
    IF fee > 0 THEN safeTransfer(s, s.treasury, fee) ELSE Ok(s)

\* Variant: the fee is accumulated but not sent.
takeFee_Unsent(s, fee) ==
    IF fee > 0 THEN Ok([s EXCEPT !.totalFeesCollected = @ + fee]) ELSE Ok(s)

\* A fee is sent to the treasury and accumulated when it is positive.
takeFee(s, fee) ==
    IF fee > 0
    THEN Bind(safeTransfer(s, s.treasury, fee),
              LAMBDA t : Ok([t.s EXCEPT !.totalFeesCollected = @ + fee]))
    ELSE Ok(s)

\* openPosition from the point where the validation has passed.
openPositionBody(s, sender, amount, targetLeverageE18) ==
    LET entryFee == feeRoundUp(amount, ENTRY_FEE_BPS)
        netDeposit == amount - entryFee
    IN
    Bind(safeTransferFrom(s, sender, ENGINE, amount), LAMBDA pull :
    Bind(takeFee(pull.s, entryFee), LAMBDA f :
    Bind(safeIncreaseAllowance(f.s, f.s.stash, U256_MAX), LAMBDA a :
    Bind(leverageLoop(0, a.s, 0, 0, netDeposit,
                      targetTotalDeposit(netDeposit, targetLeverageE18)), LAMBDA l :
    Bind(enforceHealthFactor(l.s), LAMBDA h :
    OpenResult("ok",
               releaseGuard(storePosition(h.s, sender, l.totalDeposited,
                                          l.totalBorrowed)),
               l.totalDeposited, l.totalBorrowed, entryFee))))))

\* Variant: the minimum deposit is not enforced.
openPosition_NoMinimum(s, sender, amount, targetLeverageE18) ==
    Settle(
    Bind(whenNotPaused(s), LAMBDA p :
    Bind(nonReentrant(p.s), LAMBDA g :
    IF targetLeverageE18 > MAX_LEVERAGE_E18
    THEN Revert(s, "Leverage exceeds 3x cap")
    ELSE IF targetLeverageE18 < E18
    THEN Revert(s, "Leverage must be >= 1x")
    ELSE IF positionActive(g.s)
    THEN Revert(s, "Another position is already active")
    ELSE openPositionBody(g.s, sender, amount, targetLeverageE18))))

\* Variant: the single-position check comes before the validation of the
\* arguments.
openPosition_ActiveFirst(s, sender, amount, targetLeverageE18) ==
    Settle(
    Bind(whenNotPaused(s), LAMBDA p :
    Bind(nonReentrant(p.s), LAMBDA g :
    IF positionActive(g.s)
    THEN Revert(s, "Another position is already active")
    ELSE IF amount < MIN_DEPOSIT
    THEN Revert(s, "Amount below minimum deposit")
    ELSE IF targetLeverageE18 > MAX_LEVERAGE_E18
    THEN Revert(s, "Leverage exceeds 3x cap")
    ELSE IF targetLeverageE18 < E18
    THEN Revert(s, "Leverage must be >= 1x")
    ELSE openPositionBody(g.s, sender, amount, targetLeverageE18))))

openPosition(s, sender, amount, targetLeverageE18) ==
    Settle(
    Bind(whenNotPaused(s), LAMBDA p :
    Bind(nonReentrant(p.s), LAMBDA g :
    IF amount < MIN_DEPOSIT
    THEN Revert(s, "Amount below minimum deposit")
    ELSE IF targetLeverageE18 > MAX_LEVERAGE_E18
    THEN Revert(s, "Leverage exceeds 3x cap")
    ELSE IF targetLeverageE18 < E18
    THEN Revert(s, "Leverage must be >= 1x")
    ELSE IF positionActive(g.s)
    THEN Revert(s, "Another position is already active")
    ELSE openPositionBody(g.s, sender, amount, targetLeverageE18))))

\* ------------------------------------------------------------------------
\*  LoopExecutor.closePosition
\* ------------------------------------------------------------------------

\* Variant: the debt still to repay is requested, whatever the collateral.
withdrawAmountOf_Debt(remainingCollateral, remainingDebt) == remainingDebt

\* The amount one unwind iteration withdraws: half of the collateral, or the
\* excess of the collateral over the debt when that is larger; at least 1
\* and at most the collateral.
withdrawAmountOf(remainingCollateral, remainingDebt) ==
    LET half == remainingCollateral \div 2
        excess == remainingCollateral - remainingDebt
        w1 == IF remainingCollateral > remainingDebt /\ excess > half
              THEN excess ELSE half
        w2 == IF w1 = 0 THEN 1 ELSE w1
    IN IF w2 > remainingCollateral THEN remainingCollateral ELSE w2

UnwindDone(s, remainingDebt, remainingCollateral) ==
    [err |-> "ok", s |-> s, remainingDebt |-> remainingDebt,
     remainingCollateral |-> remainingCollateral]

\* The unwind loop from iteration i on.
RECURSIVE unwindLoop(_, _, _, _)
unwindLoop(i, s, remainingDebt, remainingCollateral) ==
    IF i >= MAX_LOOPS \/ remainingDebt = 0 \/ remainingCollateral = 0
    THEN UnwindDone(s, remainingDebt, remainingCollateral)
    ELSE
    LET withdrawAmount == withdrawAmountOf(remainingCollateral, remainingDebt)
        repayAmount == IF withdrawAmount < remainingDebt
                       THEN withdrawAmount ELSE remainingDebt
    IN
    Bind(stashWithdraw(s, withdrawAmount), LAMBDA w :
    Bind(IF repayAmount > 0 THEN stashRepay(w.s, repayAmount) ELSE Ok(w.s), LAMBDA r :
    unwindLoop(i + 1, r.s, remainingDebt - repayAmount,
               remainingCollateral - withdrawAmount)))

CloseResult(err, s, userReceives, fee) ==
    [err |-> err, s |-> s, totalDeposited |-> 0, totalBorrowed |-> 0,
     fee |-> fee, userReceives |-> userReceives, log |-> s.log]

\* Variant: the owner is reset but the recorded deposit is left behind.
clearPosition_KeepsDeposit(s, sender) ==
    [s EXCEPT !.userDebts[sender] = 0,
              !.activeUser = ZERO]

\* "Clear position"
clearPosition(s, sender) ==
    [s EXCEPT !.userDeposits[sender] = 0,
              !.userDebts[sender] = 0,
              !.activeUser = ZERO]

\* Exit fee to the treasury, the rest of the net proceeds to the caller.
payOut(s, sender, netProceeds) ==
    IF netProceeds > 0
    THEN LET exitFee == feeRoundUp(netProceeds, EXIT_FEE_BPS)
             userReceives == netProceeds - exitFee
         IN Bind(takeFee(s, exitFee), LAMBDA f :
                 IF userReceives > 0 THEN safeTransfer(f.s, sender, userReceives)
                 ELSE f)
    ELSE Ok(s)

\* closePosition from the point where the caller is known to own the position.
closePositionBody(s, sender, storedDeposit) ==
    Bind(safeIncreaseAllowance(s, s.stash, U256_MAX), LAMBDA a :
    Bind(unwindLoop(0, a.s, stashBorrowBalance(s), stashDepositBalance(s)), LAMBDA u :
    Bind(IF u.remainingCollateral > 0
         THEN stashWithdraw(u.s, u.remainingCollateral) ELSE Ok(u.s), LAMBDA w :
    IF stashBorrowBalance(w.s) > 0
    THEN Revert(w.s, "Unwind incomplete: residual debt remains")
    ELSE
    LET storedDebt == w.s.userDebts[sender]
        netProceeds == IF storedDeposit > storedDebt
                       THEN storedDeposit - storedDebt ELSE 0
        exitFee == IF netProceeds > 0 THEN feeRoundUp(netProceeds, EXIT_FEE_BPS) ELSE 0
    IN
    Bind(payOut(w.s, sender, netProceeds), LAMBDA p :
    Bind(safeDecreaseAllowance(clearPosition(p.s, sender), p.s.stash, U256_MAX), LAMBDA d :
    CloseResult("ok", releaseGuard(d.s), netProceeds - exitFee, exitFee))))))

\* Variant: the deposit is taken from the pool's live balance of the engine.
storedDepositOf_Live(s, sender) == stashDepositBalance(s)

\* storedDeposit, read once on entry
storedDepositOf(s, sender) == s.userDeposits[sender]

\* Variant: the caller is not checked against the stored position.
closePositionOwned_Unchecked(s, g, sender) ==
    closePositionBody(g.s, sender, storedDepositOf(g.s, sender))

\* The checks closePosition makes once it holds the lock.
closePositionOwned(s, g, sender) ==
    IF storedDepositOf(g.s, sender) = 0 THEN Revert(s, "No open position")
    ELSE IF g.s.activeUser # sender THEN Revert(s, "Not position owner")
    ELSE closePositionBody(g.s, sender, storedDepositOf(g.s, sender))

\* Variant: closePosition as before the L-01 fix, blocked while paused.
closePosition_Pausable(s, sender) ==
    Settle(
    Bind(whenNotPaused(s), LAMBDA p :
    Bind(nonReentrant(s), LAMBDA g : closePositionOwned(s, g, sender))))

closePosition(s, sender) ==
    Settle(Bind(nonReentrant(s), LAMBDA g : closePositionOwned(s, g, sender)))

\* ------------------------------------------------------------------------
\*  Views
\* ------------------------------------------------------------------------

\* Variant: the pool's live balances of the engine are reported.
getPosition_Live(s, user) ==
    [err |-> "ok", s |-> s, totalDeposited |-> stashDepositBalance(s),
     totalBorrowed |-> stashBorrowBalance(s), fee |-> 0, userReceives |-> 0,
     log |-> s.log]

\* getPosition(user): (deposit, debt) as stored for user
getPosition(s, user) ==
    [err |-> "ok", s |-> s, totalDeposited |-> s.userDeposits[user],
     totalBorrowed |-> s.userDebts[user], fee |-> 0, userReceives |-> 0,
     log |-> s.log]

\* getTotalFeesCollected(): the accumulator, reported as fee
getTotalFeesCollectedView(s) ==
    [err |-> "ok", s |-> s, totalDeposited |-> 0, totalBorrowed |-> 0,
     fee |-> s.totalFeesCollected, userReceives |-> 0, log |-> s.log]

\* ------------------------------------------------------------------------
\*  Admin
\* ------------------------------------------------------------------------

\* Variant: the caller is not compared with the deployer.
onlyDeployer_Anyone(s, caller) == Ok(s)

onlyDeployer(s, caller) ==
    IF caller # DEPLOYER THEN Revert(s, "Only deployer can call this method")
    ELSE Ok(s)

pause(s, caller) ==
    Bind(onlyDeployer(s, caller), LAMBDA o : Ok([o.s EXCEPT !.paused = TRUE]))

unpause(s, caller) ==
    Bind(onlyDeployer(s, caller), LAMBDA o : Ok([o.s EXCEPT !.paused = FALSE]))

validateNonZeroAddress(s, addr, label) ==
    IF addr = ZERO THEN Revert(s, label) ELSE Ok(s)

setTreasury(s, caller, newTreasury) ==
    Bind(onlyDeployer(s, caller), LAMBDA o :
    Bind(validateNonZeroAddress(o.s, newTreasury, "treasury cannot be zero address"),
         LAMBDA v : Ok([v.s EXCEPT !.treasury = newTreasury])))

setStash(s, caller, newStash) ==
    Bind(onlyDeployer(s, caller), LAMBDA o :
    Bind(validateNonZeroAddress(o.s, newStash, "stash cannot be zero address"),
         LAMBDA v : Ok([v.s EXCEPT !.stash = newStash])))

setMoto(s, caller, newMoto) ==
    Bind(onlyDeployer(s, caller), LAMBDA o :
    Bind(validateNonZeroAddress(o.s, newMoto, "moto cannot be zero address"),
         LAMBDA v : Ok([v.s EXCEPT !.moto = newMoto])))

\* ------------------------------------------------------------------------
\*  MockMoto.mint and the holders' own allowance grants
\* ------------------------------------------------------------------------

mint(s, caller, to, amount) ==
    Bind(onlyDeployer(s, caller),
         LAMBDA o : Ok([o.s EXCEPT !.balance[to] = @ + amount,
                                   !.totalSupply = @ + amount]))

\* ------------------------------------------------------------------------
\*  Invocations
\* ------------------------------------------------------------------------

\* The record kept of an invocation: what was called, by whom, with what,
\* the storage it found (pre) and its outcome.
Invocation(op, caller, amount, leverage, r) ==
    [op |-> op, caller |-> caller, user |-> caller, amount |-> amount,
     leverage |-> leverage, err |-> r.err, totalDeposited |-> r.totalDeposited,
     totalBorrowed |-> r.totalBorrowed, fee |-> r.fee,
     userReceives |-> r.userReceives, ret |-> 0,
     log |-> r.log, held |-> r.s.held,
     pre |-> Storage]

Plain(r) ==
    [err |-> r.err, s |-> r.s, totalDeposited |-> 0, totalBorrowed |-> 0,
     fee |-> 0, userReceives |-> 0, log |-> r.s.log]

\* Variant: a reverted invocation keeps the storage writes made before it
\* threw.
Commit_Partial(r) ==
    /\ paused' = r.s.paused
    /\ locked' = r.s.locked
    /\ totalFeesCollected' = r.s.totalFeesCollected
    /\ activeUser' = r.s.activeUser
    /\ userDeposits' = r.s.userDeposits
    /\ userDebts' = r.s.userDebts
    /\ stashDeposits' = r.s.stashDeposits
    /\ stashBorrows' = r.s.stashBorrows
    /\ totalDeposits' = r.s.totalDeposits
    /\ totalBorrows' = r.s.totalBorrows
    /\ balance' = r.s.balance
    /\ allowance' = r.s.allowance
    /\ totalSupply' = r.s.totalSupply
    /\ ledgerChecked' = r.s.ledgerChecked
    /\ treasury' = r.s.treasury
    /\ stash' = r.s.stash
    /\ moto' = r.s.moto

\* A successful invocation commits the storage it produced; a reverted one
\* leaves the storage of every contract as it was.
Commit(r) ==
    IF r.err = "ok"
    THEN /\ paused' = r.s.paused
         /\ locked' = r.s.locked
         /\ totalFeesCollected' = r.s.totalFeesCollected
         /\ activeUser' = r.s.activeUser
         /\ userDeposits' = r.s.userDeposits
         /\ userDebts' = r.s.userDebts
         /\ stashDeposits' = r.s.stashDeposits
         /\ stashBorrows' = r.s.stashBorrows
         /\ totalDeposits' = r.s.totalDeposits
         /\ totalBorrows' = r.s.totalBorrows
         /\ balance' = r.s.balance
         /\ allowance' = r.s.allowance
         /\ totalSupply' = r.s.totalSupply
         /\ ledgerChecked' = r.s.ledgerChecked
         /\ treasury' = r.s.treasury
         /\ stash' = r.s.stash
         /\ moto' = r.s.moto
    ELSE UNCHANGED stateVars

InitStorage(checked) ==
    [paused |-> FALSE, locked |-> FALSE, totalFeesCollected |-> 0,
     activeUser |-> ZERO,
     userDeposits |-> [u \in Users |-> 0], userDebts |-> [u \in Users |-> 0],
     stashDeposits |-> [a \in PoolAccounts |-> 0],
     stashBorrows |-> [a \in PoolAccounts |-> 0],
     totalDeposits |-> 0, totalBorrows |-> 0,
     balance |-> [h \in Holders |-> 0], allowance |-> [p \in AllowPairs |-> 0],
     totalSupply |-> 0, ledgerChecked |-> checked,
     treasury |-> TREASURY, stash |-> STASH, moto |-> MOTO,
     log |-> <<>>, held |-> <<>>, pool |-> MockStashPool]

Init ==
    \E checked \in BOOLEAN :
        LET s == InitStorage(checked) IN
        /\ paused = s.paused
        /\ locked = s.locked
        /\ totalFeesCollected = s.totalFeesCollected
        /\ activeUser = s.activeUser
        /\ userDeposits = s.userDeposits
        /\ userDebts = s.userDebts
        /\ stashDeposits = s.stashDeposits
        /\ stashBorrows = s.stashBorrows
        /\ totalDeposits = s.totalDeposits
        /\ totalBorrows = s.totalBorrows
        /\ balance = s.balance
        /\ allowance = s.allowance
        /\ totalSupply = s.totalSupply
        /\ ledgerChecked = s.ledgerChecked
        /\ treasury = s.treasury
        /\ stash = s.stash
        /\ moto = s.moto
        /\ last = [op |-> "onDeployment", caller |-> DEPLOYER, user |-> DEPLOYER,
                   amount |-> 0,
                   leverage |-> 0, err |-> "ok", totalDeposited |-> 0,
                   totalBorrowed |-> 0, fee |-> 0, userReceives |-> 0,
                   ret |-> 0, log |-> <<>>, held |-> <<>>, pre |-> s]

OpenPosition(sender, amount, targetLeverageE18) ==
    /\ totalFeesCollected <= MaxFees
    /\ LET r == openPosition(Storage, sender, amount, targetLeverageE18) IN
       /\ Commit(r)
       /\ last' = Invocation("openPosition", sender, amount, targetLeverageE18, r)

ClosePosition(sender) ==
    LET r == closePosition(Storage, sender) IN
    /\ Commit(r)
    /\ last' = Invocation("closePosition", sender, 0, 0, r)

Pause(caller) ==
    LET r == Plain(pause(Storage, caller)) IN
    /\ Commit(r)
    /\ last' = Invocation("pause", caller, 0, 0, r)

Unpause(caller) ==
    LET r == Plain(unpause(Storage, caller)) IN
    /\ Commit(r)
    /\ last' = Invocation("unpause", caller, 0, 0, r)

Mint(caller, to) ==
    /\ totalSupply + MintUnit <= MaxSupply
    /\ LET r == Plain(mint(Storage, caller, to, MintUnit)) IN
       /\ Commit(r)
       /\ last' = Invocation("mint", caller, MintUnit, 0, r)

\* The views read the storage; what they leave behind is committed like the
\* storage of any other invocation.
GetPosition(caller, user) ==
    LET r == getPosition(Storage, user) IN
    /\ Commit(r)
    /\ last' = [Invocation("getPosition", caller, 0, 0, r) EXCEPT !.user = user]

GetTotalFeesCollected(caller) ==
    LET r == getTotalFeesCollectedView(Storage) IN
    /\ Commit(r)
    /\ last' = Invocation("getTotalFeesCollected", caller, 0, 0, r)

\* A user lets the engine spend MintUnit more of its tokens.
Approve(owner) ==
    /\ allowance[<<owner, ENGINE>>] + MintUnit <= MaxApproved
    /\ LET r == Plain(tokenIncreaseAllowance(Storage, owner, ENGINE, MintUnit)) IN
       /\ Commit(r)
       /\ last' = Invocation("increaseAllowance", owner, MintUnit, 0, r)

Next ==
    \/ \E u \in Users, a \in Amounts, l \in Leverages : OpenPosition(u, a, l)
    \/ \E u \in Users : ClosePosition(u)
    \/ \E c \in {DEPLOYER, "alice"} : Pause(c)
    \/ \E c \in {DEPLOYER, "alice"} : Unpause(c)
    \/ \E to \in Users \cup {STASH} : Mint(DEPLOYER, to)
    \/ \E u \in Users : Approve(u)
    \/ \E u \in Users : GetPosition(DEPLOYER, u)
    \/ GetTotalFeesCollected(DEPLOYER)

Spec == Init /\ [][Next]_vars

\* feeRoundUp on its own: an amount is drawn, then the fee on it is computed
\* at the 50 bps of the entry and exit fee.
InitFee ==
    \E a \in FeeAmounts :
        LET s == InitStorage(FALSE) IN
        /\ paused = s.paused
        /\ locked = s.locked
        /\ totalFeesCollected = s.totalFeesCollected
        /\ activeUser = s.activeUser
        /\ userDeposits = s.userDeposits
        /\ userDebts = s.userDebts
        /\ stashDeposits = s.stashDeposits
        /\ stashBorrows = s.stashBorrows
        /\ totalDeposits = s.totalDeposits
        /\ totalBorrows = s.totalBorrows
        /\ balance = s.balance
        /\ allowance = s.allowance
        /\ totalSupply = s.totalSupply
        /\ ledgerChecked = s.ledgerChecked
        /\ treasury = s.treasury
        /\ stash = s.stash
        /\ moto = s.moto
        /\ last = [op |-> "amount", caller |-> ENGINE, user |-> ENGINE,
                   amount |-> a,
                   leverage |-> 0, err |-> "ok", totalDeposited |-> 0,
                   totalBorrowed |-> 0, fee |-> 0, userReceives |-> 0,
                   ret |-> 0, log |-> <<>>, held |-> <<>>, pre |-> s]

FeeRoundUp ==
    /\ last.op = "amount"
    /\ last' = [last EXCEPT !.op = "feeRoundUp",
                            !.fee = feeRoundUp(last.amount, ENTRY_FEE_BPS)]
    /\ UNCHANGED stateVars

NextFee == FeeRoundUp

SpecFee == InitFee /\ [][NextFee]_vars

\* The engine in front of a lending pool other than MockStash.  The pool's
\* answers are drawn anew for every invocation, and the debt it records
\* for the engine may grow between invocations (interest).
OpenPositionAt(pool, sender, amount, targetLeverageE18) ==
    /\ totalFeesCollected <= MaxFees
    /\ LET r == openPosition([Storage EXCEPT !.pool = pool], sender, amount,
                             targetLeverageE18) IN
       /\ Commit(r)
       /\ last' = [Invocation("openPosition", sender, amount, targetLeverageE18, r)
                       EXCEPT !.pre.pool = pool]

ClosePositionAt(pool, sender) ==
    LET r == closePosition([Storage EXCEPT !.pool = pool], sender) IN
    /\ Commit(r)
    /\ last' = [Invocation("closePosition", sender, 0, 0, r) EXCEPT !.pre.pool = pool]

AccrueInterest ==
    /\ stashBorrows[ENGINE] > 0
    /\ stashBorrows[ENGINE] + InterestUnit <= MaxSupply + MaxInterest
    /\ stashBorrows' = [stashBorrows EXCEPT ![ENGINE] = @ + InterestUnit]
    /\ totalBorrows' = totalBorrows + InterestUnit
    /\ last' = [Invocation("accrue", STASH, InterestUnit, 0, Plain(Ok(Storage)))
                    EXCEPT !.pre = Storage]
    /\ UNCHANGED <<paused, locked, totalFeesCollected, activeUser, userDeposits,
                   userDebts, stashDeposits, totalDeposits, balance, allowance,
                   totalSupply, ledgerChecked, treasury, stash, moto>>

\* The collateral the pool records for the engine may grow as well.
AccrueYield ==
    /\ stashDeposits[ENGINE] > 0
    /\ stashDeposits[ENGINE] + YieldUnit <= MaxSupply
    /\ stashDeposits' = [stashDeposits EXCEPT ![ENGINE] = @ + YieldUnit]
    /\ totalDeposits' = totalDeposits + YieldUnit
    /\ last' = [Invocation("accrue", STASH, YieldUnit, 0, Plain(Ok(Storage)))
                    EXCEPT !.pre = Storage]
    /\ UNCHANGED <<paused, locked, totalFeesCollected, activeUser, userDeposits,
                   userDebts, stashBorrows, totalBorrows, balance, allowance,
                   totalSupply, ledgerChecked, treasury, stash, moto>>

NextOtherPool ==
    \/ \E p \in Pools, l \in {E18, 2 * E18, 3 * E18} :
           OpenPositionAt(p, "alice", MIN_DEPOSIT, l)
    \/ \E p \in Pools : ClosePositionAt(p, "alice")
    \/ AccrueInterest
    \/ AccrueYield
    \/ \E to \in {"alice", STASH} : Mint(DEPLOYER, to)
    \/ Approve("alice")

SpecOtherPool == Init /\ [][NextOtherPool]_vars

\* The engine in front of MockStash with target leverages around the largest
\* one the health factor check lets through.
NextLeverage ==
    \/ \E a \in {MIN_DEPOSIT, 2 * MIN_DEPOSIT}, l \in FineLeverages :
           OpenPosition("alice", a, l)
    \/ ClosePosition("alice")
    \/ Pause(DEPLOYER)
    \/ Unpause(DEPLOYER)
    \/ Mint(DEPLOYER, "alice")
    \/ Approve("alice")

SpecLeverage == Init /\ [][NextLeverage]_vars

\* The administration of the engine.  The new addresses are the zero address
\* and two others; the specifications that open and close positions keep the
\* three addresses as deployed.
SetTreasury(caller, newTreasury) ==
    LET r == Plain(setTreasury(Storage, caller, newTreasury)) IN
    /\ Commit(r)
    /\ last' = [Invocation("setTreasury", caller, 0, 0, r) EXCEPT !.user = newTreasury]

SetStash(caller, newStash) ==
    LET r == Plain(setStash(Storage, caller, newStash)) IN
    /\ Commit(r)
    /\ last' = [Invocation("setStash", caller, 0, 0, r) EXCEPT !.user = newStash]

SetMoto(caller, newMoto) ==
    LET r == Plain(setMoto(Storage, caller, newMoto)) IN
    /\ Commit(r)
    /\ last' = [Invocation("setMoto", caller, 0, 0, r) EXCEPT !.user = newMoto]

NextAdmin ==
    \/ \E c \in Callers : Pause(c)
    \/ \E c \in Callers : Unpause(c)
    \/ \E c \in Callers, a \in NewAddresses : SetTreasury(c, a)
    \/ \E c \in Callers, a \in NewAddresses : SetStash(c, a)
    \/ \E c \in Callers, a \in NewAddresses : SetMoto(c, a)

SpecAdmin == Init /\ [][NextAdmin]_vars

\* MockStash on its own: accounts supply, borrow, repay and withdraw
\* directly, on a ledger where the allowance they grant the pool is the
\* maximum and is not used up.
InitStash ==
    LET s == InitStorage(FALSE) IN
    /\ paused = s.paused
    /\ locked = s.locked
    /\ totalFeesCollected = s.totalFeesCollected
    /\ activeUser = s.activeUser
    /\ userDeposits = s.userDeposits
    /\ userDebts = s.userDebts
    /\ stashDeposits = s.stashDeposits
    /\ stashBorrows = s.stashBorrows
    /\ totalDeposits = s.totalDeposits
    /\ totalBorrows = s.totalBorrows
    /\ balance = s.balance
    /\ allowance = s.allowance
    /\ totalSupply = s.totalSupply
    /\ ledgerChecked = s.ledgerChecked
    /\ treasury = s.treasury
    /\ stash = s.stash
    /\ moto = s.moto
    /\ last = [op |-> "onDeployment", caller |-> DEPLOYER, user |-> DEPLOYER,
               amount |-> 0, leverage |-> 0, err |-> "ok", totalDeposited |-> 0,
               totalBorrowed |-> 0, fee |-> 0, userReceives |-> 0,
               ret |-> 0, log |-> <<>>, held |-> <<>>, pre |-> s]

Deposit(sender, amount) ==
    /\ stashDeposits[sender] + amount <= MaxPoolDeposit
    /\ LET r == Plain(stashDepositCall(Storage, sender, amount)) IN
       /\ Commit(r)
       /\ last' = Invocation("deposit", sender, amount, 0, r)

Borrow(sender, amount) ==
    LET r == Plain(stashBorrowCall(Storage, sender, amount)) IN
    /\ Commit(r)
    /\ last' = Invocation("borrow", sender, amount, 0, r)

Repay(sender, amount) ==
    LET r == Plain(stashRepayCall(Storage, sender, amount)) IN
    /\ Commit(r)
    /\ last' = Invocation("repay", sender, amount, 0, r)

Withdraw(sender, amount) ==
    LET r == Plain(stashWithdrawCall(Storage, sender, amount)) IN
    /\ Commit(r)
    /\ last' = Invocation("withdraw", sender, amount, 0, r)

HealthFactor(caller, account) ==
    LET r == healthFactor(Storage, account) IN
    /\ Commit(Plain(r))
    /\ last' = [Invocation("healthFactor", caller, 0, 0, Plain(r))
                    EXCEPT !.user = account, !.ret = r.ret]

MaxBorrowable(caller, account) ==
    LET r == maxBorrowableOf(Storage, account) IN
    /\ Commit(Plain(r))
    /\ last' = [Invocation("maxBorrowable", caller, 0, 0, Plain(r))
                    EXCEPT !.user = account, !.ret = r.ret]

\* An account lets the pool spend its tokens without limit.
ApproveStash(owner) ==
    /\ allowance[<<owner, STASH>>] = 0
    /\ LET r == Plain(tokenIncreaseAllowance(Storage, owner, STASH, U256_MAX)) IN
       /\ Commit(r)
       /\ last' = Invocation("increaseAllowance", owner, U256_MAX, 0, r)

NextStash ==
    \/ \E a \in DepositAmounts : Deposit("alice", a)
    \/ \E a \in BorrowAmounts : Borrow("alice", a)
    \/ \E a \in RepayAmounts : Repay("alice", a)
    \/ \E a \in WithdrawAmounts : Withdraw("alice", a)
    \/ \E u \in Users : HealthFactor(DEPLOYER, u)
    \/ \E u \in Users : MaxBorrowable(DEPLOYER, u)
    \/ Mint(DEPLOYER, "alice")
    \/ ApproveStash("alice")

SpecStash == InitStash /\ [][NextStash]_vars

\* ------------------------------------------------------------------------
\*  Properties
\* ------------------------------------------------------------------------

OpenedOk == last.op = "openPosition" /\ last.err = "ok"
ClosedOk == last.op = "closePosition" /\ last.err = "ok"

\* The caller of the last invocation held and had approved the amount.
CallerFunded ==
    /\ last.caller \in Users
    /\ last.pre.balance[last.caller] >= last.amount
    /\ last.pre.allowance[<<last.caller, ENGINE>>] >= last.amount

ValidOpenArguments(amount, leverage) ==
    /\ amount >= MIN_DEPOSIT
    /\ leverage >= E18
    /\ leverage <= MAX_LEVERAGE_E18

\* The storage is what the last invocation found.
StorageUntouched == Storage = last.pre

\* C1 (as claimed): every active position can be closed by its owner: in no
\* reachable state with an active position does closePosition by the owner
\* revert.  Stated for the ledger most favourable to the claim, the one whose
\* allowance arithmetic saturates and so never reverts.
C1_EveryPositionClosable ==
    (activeUser # ZERO /\ ~ledgerChecked)
        => closePosition(Storage, activeUser).err = "ok"

\* C2: while a position is active, and so right after every successful
\* openPosition, the pool's health factor of the engine is at least 1.5
\* (the maximum value when the engine owes nothing).
C2_HealthFactorWhileActive ==
    /\ activeUser # ZERO
         => calculateHealthFactor(Storage, ENGINE) >= MIN_HEALTH_FACTOR_E18
    /\ stashBorrows[ENGINE] = 0 => calculateHealthFactor(Storage, ENGINE) = U256_MAX

C2_Witness ==
    /\ OpenedOk
    /\ stashBorrows[ENGINE] > 0
    /\ activeUser = last.caller

\* C3 (as claimed): openPosition(amount, 2.0x) with a valid amount, not
\* paused, no active position, a funded caller and a pool reserve of at least
\* twice the amount succeeds and records debt > 0 and deposit > amount.
C3_Open2xSucceeds ==
    (/\ last.op = "openPosition"
     /\ last.leverage = 2 * E18
     /\ last.amount >= MIN_DEPOSIT
     /\ ~last.pre.paused
     /\ last.pre.activeUser = ZERO
     /\ CallerFunded
     /\ last.pre.balance[STASH] >= 2 * last.amount)
        => /\ last.err = "ok"
           /\ userDebts[last.caller] > 0
           /\ userDeposits[last.caller] > last.amount

\* C4 (as claimed): an openPosition made while a position is active always
\* fails with 'Another position is already active' and leaves the stored
\* position unchanged.
C4_AlwaysPositionAlreadyActive ==
    (last.op = "openPosition" /\ last.pre.activeUser # ZERO)
        => /\ last.err = "Another position is already active"
           /\ StorageUntouched

\* C4 (amended): an openPosition made while a position is active always fails
\* and leaves the stored position unchanged, whoever calls; the failure is
\* 'Another position is already active' whenever the contract is not paused
\* and the amount and the leverage are valid, and the failure of the earlier
\* check otherwise.
C4_OpenWhileActiveFails ==
    (last.op = "openPosition" /\ last.pre.activeUser # ZERO)
        => /\ last.err # "ok"
           /\ StorageUntouched
           /\ (~last.pre.paused /\ ValidOpenArguments(last.amount, last.leverage))
                 => last.err = "Another position is already active"
           /\ last.err = "Another position is already active"
                 => (~last.pre.paused /\ ValidOpenArguments(last.amount, last.leverage))

C4_Witness ==
    /\ last.op = "openPosition"
    /\ last.pre.activeUser # ZERO
    /\ last.caller # last.pre.activeUser
    /\ CallerFunded
    /\ last.err = "Another position is already active"

\* C5: between invocations at most one address has a stored deposit or debt,
\* and that address is the stored activeUser; every other address has (0, 0).
C5_SinglePosition ==
    \A u \in Users :
        (userDeposits[u] # 0 \/ userDebts[u] # 0) => u = activeUser

C5_Witness ==
    /\ OpenedOk
    /\ last.pre.totalFeesCollected > 0
    /\ userDeposits[activeUser] > 0
    /\ userDebts[activeUser] > 0
    /\ \E u \in Users : u # activeUser /\ balance[u] < MintUnit /\ balance[u] > 0

C7_ReopenAfterClose ==
    ClosedOk =>
        \A u \in Users, a \in Amounts, l \in Leverages :
            (/\ ValidOpenArguments(a, l)
             /\ ~paused
             /\ balance[u] >= a
             /\ allowance[<<u, ENGINE>>] >= a)
                => openPosition(Storage, u, a, l).err = "ok"

\* C8: after a successful openPosition the recorded deposit is at most
\* targetTotalDeposit = floor(netDeposit * leverage / 1e18) and the recorded
\* debt at most targetTotalDeposit - netDeposit, hence debt / deposit is at
\* most leverage - 1.0.
C8_LeverageBound ==
    OpenedOk =>
        LET netDeposit == last.amount
                            - ((last.amount * ENTRY_FEE_BPS + 9999) \div 10000)
            target == (netDeposit * last.leverage) \div E18
        IN /\ userDeposits[last.caller] = last.totalDeposited
           /\ userDebts[last.caller] = last.totalBorrowed
           /\ last.totalDeposited <= target
           /\ last.totalBorrowed <= target - netDeposit
           /\ last.totalBorrowed * E18
                 <= (last.leverage - E18) * last.totalDeposited

C8_Witness ==
    /\ OpenedOk
    /\ last.totalBorrowed > 0
    /\ last.leverage > E18

\* C9: while paused, every openPosition fails with 'Contract is paused' and
\* changes nothing, whatever its arguments and whether or not a position is
\* active.
C9_OpenBlockedWhilePaused ==
    (last.op = "openPosition" /\ last.pre.paused)
        => /\ last.err = "Contract is paused"
           /\ StorageUntouched

C9_Witness ==
    /\ last.op = "openPosition"
    /\ last.pre.paused
    /\ last.pre.activeUser = ZERO
    /\ ValidOpenArguments(last.amount, last.leverage)
    /\ CallerFunded
    /\ last.err = "Contract is paused"

\* C10: closePosition does not depend on the paused flag: from any reachable
\* storage and for any caller, the outcome and the effects of closePosition
\* are the same with paused set and with paused clear.
C10_CloseIgnoresPause ==
    \A u \in Users :
        LET p == closePosition([Storage EXCEPT !.paused = TRUE], u)
            q == closePosition([Storage EXCEPT !.paused = FALSE], u)
        IN /\ p.err = q.err
           /\ p.userReceives = q.userReceives
           /\ p.fee = q.fee
           /\ p.log = q.log
           /\ [p.s EXCEPT !.paused = FALSE, !.held = <<>>] = [q.s EXCEPT !.held = <<>>]

C10_Witness ==
    /\ ClosedOk
    /\ last.pre.paused
    /\ paused
    /\ last.userReceives > 0

\* The calls of a log that went to the pool.
PoolOps == {"deposit", "borrow", "repay", "withdraw"}
PoolCalls(log) == SelectSeq(log, LAMBDA e : e[1] \in PoolOps)
CallsTo(log, op) == SelectSeq(log, LAMBDA e : e[1] = op)

\* C11: openPosition at leverage 1.0 with amount >= MIN_DEPOSIT, by a funded
\* caller on an unpaused engine with no active position, succeeds; it makes
\* exactly one pool call, a deposit of netDeposit = amount - ceil(amount * 50
\* / 10000) > 0, records deposit = netDeposit and debt = 0, and adds exactly
\* the fee to totalFeesCollected and to the treasury's balance.
C11_Open1x ==
    (last.op = "openPosition" /\ last.leverage = E18) =>
        LET fee == ((last.amount * 50) + 9999) \div 10000
            netDeposit == last.amount - fee
        IN /\ (/\ last.amount >= MIN_DEPOSIT
               /\ ~last.pre.paused
               /\ last.pre.activeUser = ZERO
               /\ CallerFunded) => last.err = "ok"
           /\ last.err = "ok" =>
                /\ PoolCalls(last.log) = << <<"deposit", netDeposit>> >>
                /\ netDeposit > 0
                /\ userDeposits[last.caller] = netDeposit
                /\ userDebts[last.caller] = 0
                /\ totalFeesCollected = last.pre.totalFeesCollected + fee
                /\ balance[TREASURY] = last.pre.balance[TREASURY] + fee
                /\ CallsTo(last.log, "transfer") = << <<"transfer", fee>> >>

C11_Witness ==
    /\ OpenedOk
    /\ last.leverage = E18
    /\ last.amount = 2 * MIN_DEPOSIT
    /\ last.fee = 100
    /\ totalFeesCollected > last.pre.totalFeesCollected

\* C12 (as claimed): openPosition with amount < 10 000 fails with 'Amount
\* below minimum deposit' and with a leverage outside 1x..3x fails with one
\* of the two leverage errors, in every state and for every other argument.
C12_ValidationErrors ==
    last.op = "openPosition" =>
        /\ last.amount < MIN_DEPOSIT => last.err = "Amount below minimum deposit"
        /\ last.leverage > MAX_LEVERAGE_E18 => last.err = "Leverage exceeds 3x cap"
        /\ last.leverage < E18 => last.err = "Leverage must be >= 1x"

\* C12 (amended): an openPosition with an invalid amount or leverage always
\* fails before any token or pool call and leaves all storage unchanged; on
\* an unpaused engine the error is 'Amount below minimum deposit' when
\* amount < 10 000 and otherwise the leverage error for the bound exceeded.
C12_ValidationRejects ==
    (last.op = "openPosition" /\ ~ValidOpenArguments(last.amount, last.leverage)) =>
        /\ last.err # "ok"
        /\ last.log = <<>>
        /\ StorageUntouched
        /\ ~last.pre.paused =>
             last.err = IF last.amount < MIN_DEPOSIT THEN "Amount below minimum deposit"
                        ELSE IF last.leverage > MAX_LEVERAGE_E18 THEN "Leverage exceeds 3x cap"
                        ELSE "Leverage must be >= 1x"

C12_Witness ==
    /\ last.op = "openPosition"
    /\ ~last.pre.paused
    /\ last.pre.activeUser = ZERO
    /\ CallerFunded
    /\ last.amount = MIN_DEPOSIT - 1
    /\ last.leverage = E18
    /\ last.err = "Amount below minimum deposit"

\* C13: closePosition by a caller that is not the stored owner (a stranger
\* while a position is active, or anyone when there is none) fails with 'No
\* open position' or 'Not position owner', makes no token or pool call and
\* leaves all storage unchanged.
C13_CloseByNonOwner ==
    (last.op = "closePosition" /\ last.caller # last.pre.activeUser) =>
        /\ last.err \in {"No open position", "Not position owner"}
        /\ last.log = <<>>
        /\ StorageUntouched

C13_Witness ==
    /\ last.op = "closePosition"
    /\ last.pre.activeUser \in Users \ {last.caller}
    /\ last.pre.stashDeposits[ENGINE] > 0
    /\ last.err = "No open position"

\* C14: whatever the pool answers, one openPosition makes at most 5 deposit
\* calls and at most 5 borrow calls, and one closePosition at most 5
\* withdraw/repay round trips (at most 5 repay calls, and one withdraw per
\* round trip plus the withdrawal of the collateral left over).
C14_LoopBound ==
    /\ last.op = "openPosition" =>
         /\ Len(CallsTo(last.log, "deposit")) <= 5
         /\ Len(CallsTo(last.log, "borrow")) <= 5
         /\ Len(CallsTo(last.log, "borrow")) <= Len(CallsTo(last.log, "deposit"))
    /\ last.op = "closePosition" =>
         /\ Len(CallsTo(last.log, "repay")) <= 5
         /\ Len(CallsTo(last.log, "withdraw")) <= 5 + 1
         /\ Len(CallsTo(last.log, "repay")) <= Len(CallsTo(last.log, "withdraw"))

C14_Witness ==
    /\ OpenedOk
    /\ Len(CallsTo(last.log, "deposit")) = 5
    /\ Len(CallsTo(last.log, "borrow")) = 5
    /\ last.totalBorrowed = 5

\* C15: feeRoundUp(amount, 50) is (amount * 50 + 9999) div 10000, which is
\* the least integer not below amount * 50 / 10000; it is non-decreasing in
\* amount and positive for every amount >= 200.
C15_FeeRoundUp ==
    last.op = "feeRoundUp" =>
        /\ last.fee = ((last.amount * 50) + 9999) \div 10000
        /\ last.fee * 10000 >= last.amount * 50
        /\ (last.fee - 1) * 10000 < last.amount * 50
        /\ \A b \in 0 .. last.amount : feeRoundUp(b, ENTRY_FEE_BPS) <= last.fee
        /\ last.amount >= 200 => last.fee > 0

C15_Witness ==
    /\ last.op = "feeRoundUp"
    /\ last.amount = 201
    /\ last.fee = 2

\* C16 (as claimed): the 50 bps fee on 199 is zero.
C16_DustBoundary ==
    (last.op = "feeRoundUp" /\ last.amount = 199) => last.fee = 0

\* C16 (amended): the 50 bps fee on 199 is 1; rounded up, the fee is zero
\* for the amount 0 only, so there is no dust boundary at 199.
C16_NoDustBoundary ==
    last.op = "feeRoundUp" =>
        /\ last.amount = 199 => last.fee = 1
        /\ last.fee = 0 <=> last.amount = 0

C16_Witness ==
    /\ last.op = "feeRoundUp"
    /\ last.amount = 199
    /\ last.fee = 1

\* C17: totalFeesCollected never decreases; an invocation changes it only if
\* it is a successful openPosition or closePosition, and then by the fee of
\* that invocation, which is what the treasury received; so the total always
\* equals the fees the treasury was sent.
C17_FeeAccumulator ==
    LET charged == IF (OpenedOk \/ ClosedOk) THEN last.fee ELSE 0 IN
    /\ charged >= 0
    /\ totalFeesCollected = last.pre.totalFeesCollected + charged
    /\ balance[TREASURY] = last.pre.balance[TREASURY] + charged
    /\ totalFeesCollected = balance[TREASURY]

C17_Witness ==
    /\ ClosedOk
    /\ last.fee > 0
    /\ last.pre.totalFeesCollected > 0
    /\ totalFeesCollected = last.pre.totalFeesCollected + last.fee

\* C18: the reentrancy lock is clear in every state between invocations: on
\* entry to every openPosition and closePosition and after it returned,
\* whether it succeeded or failed.
C18_LockClearBetweenInvocations ==
    /\ ~locked
    /\ ~last.pre.locked

C18_Witness ==
    /\ ~locked
    /\ last.op = "openPosition"
    /\ last.err = "Health factor below minimum 1.5"
    /\ last.pre.activeUser = ZERO
    /\ \E u \in Users : userDeposits[u] = 0

C19_NestedCallsReentrant ==
    \A i \in 1 .. Len(last.held) :
        /\ \A u \in Users : closePosition(last.held[i], u).err = "Reentrant call"
        /\ \A u \in Users, a \in Amounts, l \in Leverages :
               openPosition(last.held[i], u, a, l).err = "Reentrant call"

\* C19 (amended): the lock is held at every external call of a running
\* openPosition or closePosition, and a nested call issued from there always
\* fails: closePosition with 'Reentrant call', openPosition with 'Reentrant
\* call' or, when the engine is paused (a closePosition is running), with
\* 'Contract is paused'.
C19_NestedCallsFail ==
    \A i \in 1 .. Len(last.held) :
        /\ last.held[i].locked
        /\ \A u \in Users : closePosition(last.held[i], u).err = "Reentrant call"
        /\ \A u \in Users, a \in Amounts, l \in Leverages :
               openPosition(last.held[i], u, a, l).err =
                   IF last.held[i].paused THEN "Contract is paused"
                   ELSE "Reentrant call"

C19_Witness ==
    /\ ClosedOk
    /\ last.pre.paused
    /\ Len(last.held) >= 4
    /\ last.held[2].locked
    /\ last.held[2].activeUser = last.caller
    /\ openPosition(last.held[2], last.caller, MIN_DEPOSIT, E18).err
           = "Contract is paused"

\* C21: getPosition(a) returns the stored open-time snapshot (what the
\* successful openPosition returned and recorded) when a owns the active
\* position and (0, 0) for every other address, the former owner after a
\* successful closePosition included; getPosition and getTotalFeesCollected
\* change no state.
C21_GetPosition ==
    /\ last.op = "getPosition" =>
         /\ last.err = "ok"
         /\ StorageUntouched
         /\ last.user = activeUser =>
              /\ last.totalDeposited = userDeposits[activeUser]
              /\ last.totalBorrowed = userDebts[activeUser]
              /\ last.totalDeposited > 0
         /\ last.user # activeUser =>
              (last.totalDeposited = 0 /\ last.totalBorrowed = 0)
    /\ last.op = "getTotalFeesCollected" =>
         /\ last.err = "ok"
         /\ StorageUntouched
         /\ last.fee = totalFeesCollected
    /\ OpenedOk =>
         /\ getPosition(Storage, last.caller).totalDeposited = last.totalDeposited
         /\ getPosition(Storage, last.caller).totalBorrowed = last.totalBorrowed
         /\ \A u \in Users \ {last.caller} :
                /\ getPosition(Storage, u).totalDeposited = 0
                /\ getPosition(Storage, u).totalBorrowed = 0
    /\ ClosedOk =>
         \A u \in Users :
             /\ getPosition(Storage, u).totalDeposited = 0
             /\ getPosition(Storage, u).totalBorrowed = 0

C21_Witness ==
    /\ last.op = "getPosition"
    /\ last.user = activeUser
    /\ last.totalDeposited > MIN_DEPOSIT
    /\ last.totalBorrowed > 0
    /\ totalFeesCollected > MaxFees

\* C22: on a successful closePosition the payout is computed from the stored
\* open-time snapshot only: netProceeds = storedDeposit - storedDebt if
\* storedDeposit > storedDebt, else 0; exitFee = ceil(netProceeds * 50 /
\* 10000) goes to the treasury and userReceives = netProceeds - exitFee to
\* the caller, so exitFee + userReceives = netProceeds whatever the pool's
\* live balances of the engine are.
C22_PayoutFromSnapshot ==
    ClosedOk =>
        LET storedDeposit == last.pre.userDeposits[last.caller]
            storedDebt == last.pre.userDebts[last.caller]
            netProceeds == IF storedDeposit > storedDebt
                           THEN storedDeposit - storedDebt ELSE 0
            exitFee == ((netProceeds * 50) + 9999) \div 10000
        IN /\ last.fee = exitFee
           /\ last.userReceives = netProceeds - exitFee
           /\ last.fee + last.userReceives = netProceeds
           /\ balance[TREASURY] = last.pre.balance[TREASURY] + exitFee
           /\ balance[last.caller] = last.pre.balance[last.caller] + last.userReceives
           /\ CallsTo(last.log, "transfer")
                = SelectSeq(<< <<"transfer", exitFee>>,
                               <<"transfer", netProceeds - exitFee>> >>,
                            LAMBDA e : e[2] > 0)

C22_Witness ==
    /\ ClosedOk
    /\ last.pre.stashBorrows[ENGINE] > 0
    /\ last.pre.stashDeposits[ENGINE] > last.pre.userDeposits[last.caller]
    /\ last.userReceives > 0
    /\ balance[ENGINE] > 0

\* C23 (as claimed): against MockStash, when borrowing the full maxBorrowable
\* would leave the health factor below 1.5, openPosition borrows less instead
\* of failing: an open with valid arguments at any leverage up to 3x, by a
\* funded caller on an unpaused engine with no active position and a pool
\* reserve of twice the amount, succeeds with a health factor of at least
\* 1.5, and at a target of 3x it reaches at least 1.9 times the net deposit.
C23_BorrowCappedByHealth ==
    (/\ last.op = "openPosition"
     /\ ValidOpenArguments(last.amount, last.leverage)
     /\ ~last.pre.paused
     /\ last.pre.activeUser = ZERO
     /\ CallerFunded
     /\ last.pre.balance[STASH] >= 2 * last.amount)
        => /\ last.err = "ok"
           /\ calculateHealthFactor(Storage, ENGINE) >= MIN_HEALTH_FACTOR_E18
           /\ last.leverage = MAX_LEVERAGE_E18 =>
                last.totalDeposited * 10 >= 19 * (last.amount - last.fee)

C26_HealthFactorView ==
    last.op = "healthFactor" =>
        LET deposits == stashDeposits[last.user]
            debt == stashBorrows[last.user]
        IN /\ last.err = "ok"
           /\ StorageUntouched
           /\ debt = 0 => last.ret = U256_MAX
           /\ debt > 0 => last.ret = (((deposits * 80) * E18) \div 100) \div debt
           /\ (debt > 0 /\ deposits * 80 = debt * 100) => last.ret = E18

C26_Witness ==
    /\ last.op = "healthFactor"
    /\ stashBorrows[last.user] > 0
    /\ last.ret = E18

AdminOps == {"pause", "unpause", "setTreasury", "setStash", "setMoto"}
AdminState(s) == <<s.paused, s.treasury, s.stash, s.moto>>

C28_UnwindWithdrawalsAccepted ==
    /\ (stashDeposits[ENGINE] > stashBorrows[ENGINE] /\ stashBorrows[ENGINE] > 0)
         => stashWithdrawCall(Storage, ENGINE,
                              withdrawAmountOf(stashDeposits[ENGINE],
                                               stashBorrows[ENGINE])).err = "ok"
    /\ last.op = "closePosition"
         => last.err # "Withdrawal would make position unhealthy"

\* C29: each borrow of the leverage loop is followed at once by a health
\* factor query, before any other call to the pool, so the query is answered
\* while the borrowed amount is still held by the engine and not yet
\* supplied; openPosition fails with 'Health factor below minimum 1.5' when
\* the answer is below 1.5 at any such point or at the final query after the
\* loop, and a successful openPosition ends its pool calls with that query.
C29_HealthCheckAfterEachBorrow ==
    last.op = "openPosition" =>
        /\ \A i \in 1 .. Len(last.log) :
              /\ (last.log[i][1] = "borrow" /\ i = Len(last.log))
                    => last.err \in {"Exceeds borrowing capacity", "Amount must be > 0",
                                     "Insufficient balance"}
              /\ (last.log[i][1] = "borrow" /\ i < Len(last.log)) =>
                    /\ last.log[i + 1][1] = "healthFactor"
                    /\ last.held[i + 1].stashBorrows[ENGINE]
                         = last.held[i].stashBorrows[ENGINE] + last.log[i][2]
                    /\ last.held[i + 1].stashDeposits = last.held[i].stashDeposits
                    /\ last.held[i + 1].balance[ENGINE]
                         = last.held[i].balance[ENGINE] + last.log[i][2]
                    /\ last.pre.pool.mock =>
                         last.log[i + 1][2] = calculateHealthFactor(last.held[i + 1], ENGINE)
              /\ (last.log[i][1] = "healthFactor" /\ last.log[i][2] < MIN_HEALTH_FACTOR_E18)
                    => /\ i = Len(last.log)
                       /\ last.err = "Health factor below minimum 1.5"
        /\ last.err = "Health factor below minimum 1.5" =>
              /\ Len(last.log) > 0
              /\ last.log[Len(last.log)][1] = "healthFactor"
              /\ last.log[Len(last.log)][2] < MIN_HEALTH_FACTOR_E18
        /\ last.err = "ok" =>
              /\ last.log[Len(last.log)][1] = "healthFactor"
              /\ last.log[Len(last.log)][2] >= MIN_HEALTH_FACTOR_E18
              /\ Len(CallsTo(last.log, "healthFactor"))
                    = Len(CallsTo(last.log, "borrow")) + 1

C29_Witness ==
    /\ last.op = "openPosition"
    /\ last.err = "Health factor below minimum 1.5"
    /\ Len(CallsTo(last.log, "borrow")) = 1
    /\ Len(CallsTo(last.log, "deposit")) = 1
    /\ last.log[Len(last.log)][2] < MIN_HEALTH_FACTOR_E18
    /\ ((last.held[Len(last.held)].stashDeposits[ENGINE]
           + last.held[Len(last.held)].balance[ENGINE]) * LIQ_THRESHOLD_PERCENT * E18)
          \div HUNDRED
          >= MIN_HEALTH_FACTOR_E18 * last.held[Len(last.held)].stashBorrows[ENGINE]

\* The first borrow of an open at the given amount and leverage, and the
\* health factor MockStash reports right after it.
FirstBorrow(amount, leverage) ==
    LET netDeposit == amount - (((amount * 50) + 9999) \div 10000)
    IN ((netDeposit * leverage) \div E18) - netDeposit
FirstHealthFactor(amount, leverage) ==
    LET netDeposit == amount - (((amount * 50) + 9999) \div 10000)
    IN (((netDeposit * 80) * E18) \div 100) \div FirstBorrow(amount, leverage)

\* The last invocation found the engine unpaused and without a position, and
\* its caller held and had approved the valid amount.
ReachesLoop ==
    /\ ~last.pre.paused
    /\ last.amount >= MIN_DEPOSIT
    /\ last.pre.activeUser = ZERO
    /\ CallerFunded

C31_BorrowsResupplied ==
    OpenedOk =>
        /\ last.totalDeposited = (last.amount - last.fee) + last.totalBorrowed
        /\ userDeposits[last.caller]
             = (last.amount - last.fee) + userDebts[last.caller]
        /\ balance[ENGINE] = last.pre.balance[ENGINE]

\* C32: between invocations the stored owner is non-empty exactly when that
\* owner's stored deposit is greater than zero: activeUser is never set with
\* a stored deposit of 0, and no address has a non-zero stored deposit or
\* debt while activeUser is empty.
C32_OwnerIffDeposit ==
    /\ activeUser # ZERO => userDeposits[activeUser] > 0
    /\ activeUser = ZERO =>
           \A u \in Users : userDeposits[u] = 0 /\ userDebts[u] = 0

C32_Witness ==
    /\ OpenedOk
    /\ last.pre.activeUser = ZERO
    /\ last.pre.totalFeesCollected > 0
    /\ activeUser = last.caller
    /\ userDeposits[activeUser] > userDebts[activeUser]
    /\ userDebts[activeUser] > 0

\* The positions in a call log of the calls to op, and the sum of the
\* amounts of a sequence of calls.
IndicesOf(log, op) == {i \in 1 .. Len(log) : log[i][1] = op}

RECURSIVE SumOfAmounts(_)
SumOfAmounts(calls) ==
    IF calls = <<>> THEN 0 ELSE calls[1][2] + SumOfAmounts(Tail(calls))

\* C33: every withdrawal w that closePosition requests is at least 1 and at
\* most the collateral the pool holds for the engine at that moment; a
\* withdrawal of the unwind loop (debt left, one of the first MAX_LOOPS) that
\* the pool accepts is followed by the repayment of min(w, remaining debt),
\* which is at least 1, so collateral and debt are strictly smaller at the
\* next withdrawal; over a successful close the withdrawals sum to the live
\* collateral read at the start and the engine's deposit balance ends at 0.
C33_UnwindAmounts ==
    last.op = "closePosition" =>
        LET W == IndicesOf(last.log, "withdraw")
            collateralAt(i) == last.held[i].stashDeposits[ENGINE]
            debtAt(i) == last.held[i].stashBorrows[ENGINE]
            inLoop(i) == /\ debtAt(i) > 0
                         /\ Cardinality({j \in W : j < i}) < 5
        IN
        /\ \A i \in W :
              /\ 1 <= last.log[i][2]
              /\ last.log[i][2] <= collateralAt(i)
              /\ (inLoop(i) /\ i < Len(last.log)) =>
                    /\ last.log[i + 1][1] = "repay"
                    /\ last.log[i + 1][2] >= 1
                    /\ last.log[i + 1][2]
                         = (IF last.log[i][2] < debtAt(i)
                            THEN last.log[i][2] ELSE debtAt(i))
        /\ \A i, j \in W :
              i < j => /\ collateralAt(j) < collateralAt(i)
                       /\ inLoop(i) => debtAt(j) < debtAt(i)
        /\ ClosedOk =>
              /\ SumOfAmounts(CallsTo(last.log, "withdraw"))
                   = last.pre.stashDeposits[ENGINE]
              /\ stashDeposits[ENGINE] = 0

C33_Witness ==
    /\ ClosedOk
    /\ Len(CallsTo(last.log, "repay")) = 2
    /\ Len(CallsTo(last.log, "withdraw")) = 3
    /\ last.pre.stashDeposits[ENGINE] > last.pre.stashBorrows[ENGINE]

\* C34: on a token ledger whose allowance arithmetic is checked, the
\* allowance openPosition granted to the pool is still non-zero while the
\* position is active, so the increaseAllowance(u256.Max) that closePosition
\* makes first overflows: every closePosition by the owner fails on it and
\* the position stays in place.
C34_CheckedLedgerLocksPosition ==
    /\ (ledgerChecked /\ activeUser # ZERO) => allowance[<<ENGINE, STASH>>] > 0
    /\ (/\ last.op = "closePosition"
        /\ last.pre.ledgerChecked
        /\ last.pre.activeUser = last.caller)
       => /\ last.err = "SafeMath: addition overflow"
          /\ last.log = << <<"increaseAllowance", U256_MAX>> >>
          /\ activeUser = last.caller
          /\ StorageUntouched

C34_Witness ==
    /\ last.op = "closePosition"
    /\ last.pre.ledgerChecked
    /\ last.pre.activeUser = last.caller
    /\ last.pre.userDebts[last.caller] > 0
    /\ last.pre.allowance[<<ENGINE, STASH>>] > 0
    /\ last.err = "SafeMath: addition overflow"

\* C35: after every successful closePosition the engine's allowance to the
\* pool is zero (what closePosition granted, and what was left from
\* openPosition, is revoked before it returns); so while no position is
\* active the pool holds no allowance from the engine.
C35_AllowanceRevoked ==
    /\ ClosedOk =>
          /\ allowance[<<ENGINE, STASH>>] = 0
          /\ last.log[Len(last.log)] = <<"decreaseAllowance", U256_MAX>>
    /\ activeUser = ZERO => allowance[<<ENGINE, STASH>>] = 0

C35_Witness ==
    /\ ClosedOk
    /\ last.pre.allowance[<<ENGINE, STASH>>] > 0
    /\ Len(CallsTo(last.log, "repay")) > 0
    /\ allowance[<<ENGINE, STASH>>] = 0
    /\ activeUser = ZERO

\* C36: with no interest accrual and nobody else using the engine's pool
\* account, the stored snapshot equals the pool's live balances between
\* invocations: while a position is active the owner's stored deposit and
\* debt are the engine's deposit and borrow balance in the pool, and while
\* none is active both balances are 0.
C36_SnapshotIsLive ==
    /\ activeUser # ZERO =>
          /\ userDeposits[activeUser] = stashDeposits[ENGINE]
          /\ userDebts[activeUser] = stashBorrows[ENGINE]
    /\ activeUser = ZERO =>
          /\ stashDeposits[ENGINE] = 0
          /\ stashBorrows[ENGINE] = 0

C36_Witness ==
    /\ OpenedOk
    /\ last.pre.totalFeesCollected > 0
    /\ last.totalBorrowed > 0
    /\ stashDeposits[ENGINE] = last.totalDeposited
    /\ stashBorrows[ENGINE] = last.totalBorrowed

\* The balances a round trip leaves, given the outcome r of the
\* closePosition that follows the successful openPosition recorded in last:
\* the caller is back at its balance less the two fees, the treasury has
\* both fees, the engine and the pool hold what they held before the open.
RoundTripSettled(r) ==
    LET entryFee == ((last.amount * 50) + 9999) \div 10000
        netDeposit == last.amount - entryFee
        exitFee == ((netDeposit * 50) + 9999) \div 10000
    IN /\ r.userReceives = netDeposit - exitFee
       /\ r.s.balance[last.caller]
            = (last.pre.balance[last.caller] - last.amount) + (netDeposit - exitFee)
       /\ r.s.balance[TREASURY] = last.pre.balance[TREASURY] + entryFee + exitFee
       /\ r.s.totalFeesCollected
            = last.pre.totalFeesCollected + entryFee + exitFee
       /\ r.s.balance[ENGINE] = last.pre.balance[ENGINE]
       /\ r.s.balance[STASH] = last.pre.balance[STASH]

\* C37 (as claimed): a successful openPosition(amount, L) followed by a
\* successful closePosition, with nothing accrued in between, returns
\* netDeposit - ceilFee(netDeposit, 50) to the caller, where netDeposit =
\* amount - ceilFee(amount, 50), sends both fees to the treasury and leaves
\* the engine's token balance and the pool's token reserve as they were
\* before the open.
C37_RoundTrip ==
    (OpenedOk /\ closePosition([Storage EXCEPT !.pool = last.pre.pool],
                               last.caller).err = "ok")
        => RoundTripSettled(closePosition([Storage EXCEPT !.pool = last.pre.pool],
                                          last.caller))

\* C38: 'Not position owner' is never reported: closePosition tests the
\* caller's own stored deposit first, and only the active owner has a
\* non-zero stored deposit, so every closePosition by anyone but the owner
\* fails with 'No open position'.
C38_NotPositionOwnerUnreachable ==
    /\ last.err # "Not position owner"
    /\ (last.op = "closePosition" /\ last.caller # last.pre.activeUser)
          => last.err = "No open position"
    /\ \A u \in Users \ {activeUser} :
          closePosition(Storage, u).err = "No open position"

C38_Witness ==
    /\ last.op = "closePosition"
    /\ last.pre.activeUser \in Users \ {last.caller}
    /\ last.pre.userDeposits[last.pre.activeUser] > 0
    /\ last.pre.userDeposits[last.caller] = 0
    /\ last.err = "No open position"
    /\ activeUser = last.pre.activeUser

\* The first precondition of openPosition that fails for a call with these
\* arguments on storage s, in the order claimed; "none" when all hold.
FirstFailedPrecondition(s, amount, leverage) ==
    IF s.paused THEN "Contract is paused"
    ELSE IF s.locked THEN "Reentrant call"
    ELSE IF amount < MIN_DEPOSIT THEN "Amount below minimum deposit"
    ELSE IF leverage > MAX_LEVERAGE_E18 THEN "Leverage exceeds 3x cap"
    ELSE IF leverage < E18 THEN "Leverage must be >= 1x"
    ELSE IF s.activeUser # ZERO THEN "Another position is already active"
    ELSE "none"

PreconditionErrors ==
    {"Contract is paused", "Reentrant call", "Amount below minimum deposit",
     "Leverage exceeds 3x cap", "Leverage must be >= 1x",
     "Another position is already active"}

\* C39: openPosition reports the first precondition that fails, in the
\* order paused, reentrant, below minimum deposit, leverage above 3x,
\* leverage below 1x, position already active, for top-level calls and for
\* calls nested in a running invocation alike; so 'Another position is
\* already active' is reported only for an unpaused, non-nested call with a
\* valid amount and leverage.
C39_PreconditionOrder ==
    /\ last.op = "openPosition" =>
          /\ FirstFailedPrecondition(last.pre, last.amount, last.leverage) # "none"
               => last.err = FirstFailedPrecondition(last.pre, last.amount,
                                                     last.leverage)
          /\ FirstFailedPrecondition(last.pre, last.amount, last.leverage) = "none"
               => last.err \notin PreconditionErrors
          /\ last.err = "Another position is already active"
               => /\ ~last.pre.paused
                  /\ ~last.pre.locked
                  /\ ValidOpenArguments(last.amount, last.leverage)
    /\ \A i \in 1 .. Len(last.held) :
          \A u \in Users, a \in Amounts, l \in Leverages :
              openPosition(last.held[i], u, a, l).err
                  = FirstFailedPrecondition(last.held[i], a, l)

C39_Witness ==
    /\ last.op = "openPosition"
    /\ ~last.pre.paused
    /\ last.amount < MIN_DEPOSIT
    /\ last.leverage > MAX_LEVERAGE_E18
    /\ last.pre.activeUser # ZERO
    /\ last.err = "Amount below minimum deposit"

\* C40: in MockStash, after any sequence of successful deposit, borrow,
\* repay and withdraw calls, every account with debt > 0 has a health
\* factor of at least 1e18, that is, 80% of its deposits covers its debt;
\* after a successful borrow the debt is moreover at most floor(deposits *
\* 66 / 100), a bound that a later withdraw need not keep (see the witness).
C40_StashHealthInvariant ==
    /\ \A a \in PoolAccounts :
          stashBorrows[a] > 0 =>
              /\ (((stashDeposits[a] * 80) * E18) \div 100) \div stashBorrows[a] >= E18
              /\ stashDeposits[a] * 80 >= stashBorrows[a] * 100
    /\ (last.op = "borrow" /\ last.err = "ok") =>
          stashBorrows[last.caller] <= (stashDeposits[last.caller] * 66) \div 100

C40_Witness ==
    /\ last.op = "withdraw"
    /\ last.err = "ok"
    /\ last.pre.stashBorrows[last.caller]
         <= (last.pre.stashDeposits[last.caller] * 66) \div 100
    /\ stashBorrows[last.caller] > (stashDeposits[last.caller] * 66) \div 100
    /\ stashDeposits[last.caller] * 80 >= stashBorrows[last.caller] * 100

====
